---- MODULE Spec2Model ----
(***************************************************************************)
(* Task Manager backend (src/server.js): an Express application over a     *)
(* MongoDB collection of Task documents, accessed through mongoose.        *)
(*                                                                         *)
(* State: the Task collection, the wall clock read by Date.now(), the      *)
(* ObjectId generator, one record per request being served (its position   *)
(* in the handler, its input, its locals and its response), and the        *)
(* position and locals of the seed script.  The collection starts empty;   *)
(* what it holds later is what the server and the seed script wrote.       *)
(* Every await of a handler is a point where other requests may run: an    *)
(* action runs a handler from one database round trip (or clock reading)   *)
(* to the next, and a handler with one round trip is one action.           *)
(*                                                                         *)
(* Strings that are trimmed or measured (title, description) are sequences *)
(* of UTF-16 code units, as in the engine; enumerated strings (priority,   *)
(* status, sort parameters) are TLA+ strings, "" being the empty (falsy)   *)
(* string.  A                                                              *)
(* request body or query is a record that has a field exactly when the     *)
(* JSON body / query string has it.                                        *)
(*                                                                         *)
(* Five specifications share the actions.  Spec serves requests on single  *)
(* documents in two slots at once; StatsSpec serves statistics requests in *)
(* one slot while the other serves writes; SeqSpec serves one request at a *)
(* time, of every route, over larger sets of bodies, queries and ids;      *)
(* SeedSpec runs the seed script (scripts/seed.js) beside one slot;        *)
(* FailSpec serves writes over a store that may fail them in one slot and  *)
(* reads and updates in the other.                                         *)
(*                                                                         *)
(* deleted, touched and snap are history variables: no action's guard or   *)
(* effect on the program's state reads them, except that a client can only *)
(* name the id of a document it was once given (or a made-up one).         *)
(***************************************************************************)
EXTENDS Integers, Sequences, FiniteSets, TLC

VARIABLES
    tasks,      \* the Task collection: a set of documents
    now,        \* the reading Date.now() gives
    nextId,     \* the next ObjectId the driver generates
    pc,         \* per request slot: where its handler stands
    req,        \* per request slot: the request
    loc,        \* per request slot: the handler's locals
    resp,       \* per request slot: the response, once sent
    deleted,    \* history: ids of the documents that a DELETE or the
                \* seed script's deleteMany removed
    touched,    \* history: ids of the documents that a PUT changed or
                \* that a DELETE or deleteMany removed
    started,    \* requests received and seed scripts started so far
    snap        \* history, per request slot: what the counts of every
                \* state of the collection during a stats call would be

vars == <<tasks, now, nextId, pc, req, loc, resp, deleted, touched, started, snap>>

\* ------------------------------------------------------------------ bounds
\* Largest clock reading; Tick stops there.
MaxClock == 1
\* Number of ObjectIds the generator hands out; creation stops there.
MaxTasks == 2
\* Number of requests the server receives and runs of the seed script.
MaxRequests == 4

\* The request slots: two requests can be in flight at the same time.
Procs == {1, 2}
\* The process that runs scripts/seed.js.
Seeder == 0

\* --------------------------------------------------------------- constants
TitleMaxLength == 200
DescriptionMaxLength == 1000

Priorities == {"low", "medium", "high"}
Statuses == {"pending", "in-progress", "completed"}

\* A well-formed ObjectId that no document ever has, and a string that is
\* not an ObjectId at all.  The server's generated ids are 1, 2, ...; the
\* seed script, another process, generates ids above SeedIdBase.
GhostId == 0
BadId == -1
SeedIdBase == 100

\* ----------------------------------------------------------------- strings
Rep(c, n) == [i \in 1..n |-> c]

\* The code units String.prototype.trim strips: WhiteSpace (TAB, VT, FF, SP,
\* NBSP, ZWNBSP and the space separators) and LineTerminator (LF, CR, LS, PS).
WhiteSpace ==
    {9, 11, 12, 32, 160, 65279, 5760, 8239, 8287, 12288}
    \cup (8192..8202)
    \cup {10, 13, 8232, 8233}

RECURSIVE TrimStart(_)
TrimStart(s) ==
    IF s # <<>> /\ Head(s) \in WhiteSpace THEN TrimStart(Tail(s)) ELSE s

RECURSIVE TrimEnd(_)
TrimEnd(s) ==
    IF s # <<>> /\ s[Len(s)] \in WhiteSpace
    THEN TrimEnd(SubSeq(s, 1, Len(s) - 1))
    ELSE s

\* Mutant of trim: trimStart, which leaves trailing whitespace.
trimStartOnly(s) == TrimStart(s)

\* String.prototype.trim
trim(s) == TrimEnd(TrimStart(s))

Has(o, f) == f \in DOMAIN o

\* The collection holds strings as UTF-8, which has no encoding of a
\* surrogate that lacks its other half.
HighSurrogate(c) == c >= 55296 /\ c <= 56319
LowSurrogate(c) == c >= 56320 /\ c <= 57343

\* The code unit at k is the second half of a surrogate pair.
PairEnd(s, k) ==
    k > 1 /\ HighSurrogate(s[k - 1]) /\ LowSurrogate(s[k])

\* The code unit at k is the first half of a surrogate pair.
PairStart(s, k) ==
    HighSurrogate(s[k]) /\ k < Len(s) /\ LowSurrogate(s[k + 1])

\* The code unit at k is a surrogate without its other half.
LoneSurrogate(s, k) ==
    /\ HighSurrogate(s[k]) \/ LowSurrogate(s[k])
    /\ ~PairEnd(s, k)
    /\ ~PairStart(s, k)

\* The string as the driver writes it to the collection and reads it back:
\* every surrogate without its other half has become U+FFFD (a string
\* without surrogates is left as it is).
toWellFormed(s) ==
    IF \A k \in 1..Len(s) : s[k] < 55296 \/ s[k] > 57343 THEN s
    ELSE <<>> \o [k \in 1..Len(s) |->
                    IF LoneSurrogate(s, k) THEN 65533 ELSE s[k]]

\* The document as the collection holds it.
Stored(doc) ==
    IF Has(doc, "description")
    THEN [doc EXCEPT !.title = toWellFormed(doc.title),
                     !.description = toWellFormed(doc.description)]
    ELSE [doc EXCEPT !.title = toWellFormed(doc.title)]

\* ------------------------------------------------------------ validateTask
\* Mutant of validateTask: the title test without its trim.
validateTaskUntrimmed(body) ==
    IF ~Has(body, "title") \/ body.title = <<>>
    THEN "Title is required and cannot be empty"
    ELSE IF Has(body, "priority") /\ body.priority # ""
            /\ body.priority \notin Priorities
    THEN "Priority must be low, medium, or high"
    ELSE IF Has(body, "status") /\ body.status # ""
            /\ body.status \notin Statuses
    THEN "Status must be pending, in-progress, or completed"
    ELSE "next"

\* The validation middleware: the 400 message it answers with, or "next".
validateTask(body) ==
    IF ~Has(body, "title") \/ body.title = <<>> \/ Len(trim(body.title)) = 0
    THEN "Title is required and cannot be empty"
    ELSE IF Has(body, "priority") /\ body.priority # ""
            /\ body.priority \notin Priorities
    THEN "Priority must be low, medium, or high"
    ELSE IF Has(body, "status") /\ body.status # ""
            /\ body.status \notin Statuses
    THEN "Status must be pending, in-progress, or completed"
    ELSE "next"

\* ------------------------------------------------------------------ schema
\* The four fields both write handlers build from a validated body.
updateData(body) ==
    [title |-> trim(body.title),
     description |-> IF Has(body, "description") /\ body.description # <<>>
                     THEN trim(body.description) ELSE <<>>,
     priority |-> IF Has(body, "priority") /\ body.priority # ""
                  THEN body.priority ELSE "medium",
     status |-> IF Has(body, "status") /\ body.status # ""
                THEN body.status ELSE "pending"]

\* new Task({...}): the trim setters run, _id is generated and both date
\* defaults read the clock.
NewTask(body, id, t) ==
    LET d == updateData(body) IN
    [id |-> id,
     title |-> trim(d.title),
     description |-> trim(d.description),
     priority |-> d.priority,
     status |-> d.status,
     createdAt |-> t,
     updatedAt |-> t]

\* The schema validators (required, maxlength, enum): the paths that fail.
SchemaErrors(d) ==
    {f \in {"title"} : Len(d.title) = 0 \/ Len(d.title) > TitleMaxLength}
    \cup {f \in {"description"} :
             Has(d, "description") /\ Len(d.description) > DescriptionMaxLength}
    \cup {f \in {"priority"} : d.priority \notin Priorities}
    \cup {f \in {"status"} : d.status \notin Statuses}

\* ------------------------------------------------------------------ inputs
\* "a"; U+1F600; TAB "a" SP; SP LF; NBSP "d"; NBSP, U+DC00 (a surrogate on
\* its own, "\udc00" in a JSON body), "d"; U+3000, 200 times U+FF5E, CR; ...
A == <<97>>
Emoji == <<55357, 56832>>
PadA == <<9, 97, 32>>
Blank == <<32, 10>>
D == <<160, 100>>
Lone == <<160, 56320, 100>>
Longest == <<12288>> \o Rep(65374, TitleMaxLength) \o <<13>>
TooLong == Rep(97, TitleMaxLength + 1)
LongText == Rep(100, DescriptionMaxLength + 1)

\* Request bodies of the concurrent specification.
Bodies ==
    { [title |-> PadA],
      [title |-> Longest, description |-> Lone,
       priority |-> "high", status |-> "completed"],
      [title |-> Blank] }

\* Request bodies of the sequential specification.
AllBodies ==
    Bodies \cup
    { [description |-> D],
      [title |-> <<>>],
      [title |-> <<>>, priority |-> "urgent"],
      [title |-> Emoji, description |-> <<>>, priority |-> "low",
       status |-> "in-progress"],
      [title |-> A, priority |-> "medium", status |-> "pending"],
      [title |-> TooLong],
      [title |-> TooLong, status |-> "done"],
      [title |-> A, description |-> LongText],
      [title |-> A, priority |-> ""],
      [title |-> A, priority |-> "urgent"],
      [title |-> A, priority |-> "High"],
      [title |-> A, status |-> ""],
      [title |-> A, status |-> "done"],
      [title |-> A, priority |-> "urgent", status |-> "done"] }

\* Query strings of GET /api/tasks.
AllQueries ==
    { [order |-> "desc"],
      [status |-> "completed", sortBy |-> "updatedAt", order |-> "asc"],
      [status |-> "all", priority |-> "all"],
      [status |-> "pending", sortBy |-> "$x", order |-> "asc"],
      [status |-> "in-progress", sortBy |-> "title"],
      [sortBy |-> "title", order |-> "asc"],
      [priority |-> "high", sortBy |-> "priority", order |-> "asc"],
      [priority |-> "medium", order |-> "asc"],
      [status |-> "completed", priority |-> "high", sortBy |-> "status"],
      [status |-> "pending", priority |-> "low", sortBy |-> "createdAt"],
      [status |-> "all", priority |-> "low", order |-> "up"],
      [status |-> "", sortBy |-> "updatedAt"],
      [sortBy |-> ""],
      [priority |-> "", sortBy |-> "rank", order |-> "asc"],
      [status |-> "done", priority |-> "urgent"] }

NoReq == [op |-> "none"]
NoLoc == [k |-> "none"]
NoResp == [status |-> 0]

Ids == {r.id : r \in tasks}
\* Ids a client names: of the documents the server created and of the first
\* document of the seeding, stored now or earlier,
Nameable(id) == id < SeedIdBase \/ id % SeedIdBase = 1
GivenIds == {id \in Ids \cup deleted : Nameable(id)}
\* and the ghost.
KnownIds == GivenIds \cup {GhostId}
\* The same, and a malformed one.
AllIds == KnownIds \cup {BadId}

\* -------------------------------------------------------------------- Init
Init ==
    /\ tasks = {}
    /\ now = 0
    /\ nextId = 1
    /\ deleted = {}
    /\ touched = {}
    /\ started = 0
    /\ pc = [p \in Procs \cup {Seeder} |-> "idle"]
    /\ req = [p \in Procs |-> NoReq]
    /\ loc = [p \in Procs \cup {Seeder} |-> NoLoc]
    /\ resp = [p \in Procs |-> NoResp]
    /\ snap = [p \in Procs |-> {}]

\* Date.now() advances.
Tick ==
    /\ now < MaxClock
    /\ now' = now + 1
    /\ UNCHANGED <<tasks, nextId, deleted, touched, pc, req, loc, resp, snap,
                   started>>

\* The response has been sent; the request's state is gone.
Return(p) ==
    /\ pc[p] = "done"
    /\ pc' = [pc EXCEPT ![p] = "idle"]
    /\ req' = [req EXCEPT ![p] = NoReq]
    /\ loc' = [loc EXCEPT ![p] = NoLoc]
    /\ resp' = [resp EXCEPT ![p] = NoResp]
    /\ snap' = [snap EXCEPT ![p] = {}]
    /\ UNCHANGED <<tasks, now, nextId, deleted, touched, started>>

\* The error-handling middleware's answers, and the handlers' 404.
CastError == [status |-> 400, error |-> "Invalid ID format"]
NotFound == [status |-> 404, error |-> "Task not found"]
ValidationError(paths) ==
    [status |-> 400, error |-> "Validation Error", details |-> paths]
InternalError == [status |-> 500, error |-> "Internal Server Error"]

\* findById matching every document once one has the id.
findEveryFromId(id) == IF \E r \in tasks : r.id = id THEN tasks ELSE {}

\* Task.findById(id): the set holding the document, empty when there is none.
findById(id) == {r \in tasks : r.id = id}

\* ---------------------------------------------------------- statistics
\* Task.countDocuments({status: st}) over the collection T.
countDocuments(T, st) == Cardinality({r \in T : r.status = st})

\* The $group aggregate reduced to an object: one key per priority present.
priorityStats(T) ==
    [pr \in {r.priority : r \in T} |-> Cardinality({r \in T : r.priority = pr})]

\* What the five values are over one state T of the collection.
StatsOf(T) ==
    [total |-> Cardinality(T),
     completed |-> countDocuments(T, "completed"),
     pending |-> countDocuments(T, "pending"),
     inProgress |-> countDocuments(T, "in-progress"),
     priority |-> priorityStats(T)]

StatsPcs == {"countCompleted", "countPending", "countInProgress", "aggregate"}

\* A write reached the collection: every stats call in progress has one
\* more state of the collection inside its interval.
Observe ==
    snap' = [q \in Procs |->
               IF pc[q] \in StatsPcs THEN snap[q] \cup {StatsOf(tasks')}
               ELSE snap[q]]

\* ------------------------------------------------------ POST /api/tasks
\* Mutant of ObjectId: an id derived from the size of the collection.
ObjectIdFromCount == Cardinality(tasks) + 1

\* The _id the driver generates for a new document: never one it gave before.
ObjectId == nextId

\* validateTask, then the synchronous part of the handler up to save().
Post(p, body) ==
    /\ pc[p] = "idle"
    /\ started < MaxRequests
    /\ started' = started + 1
    /\ req' = [req EXCEPT ![p] = [op |-> "create", body |-> body]]
    /\ IF validateTask(body) # "next"
       THEN /\ resp' = [resp EXCEPT ![p] =
                          [status |-> 400, error |-> validateTask(body)]]
            /\ pc' = [pc EXCEPT ![p] = "done"]
            /\ UNCHANGED <<loc, nextId>>
       ELSE /\ nextId <= MaxTasks
            /\ loc' = [loc EXCEPT ![p] = NewTask(body, ObjectId, now)]
            /\ nextId' = nextId + 1
            /\ pc' = [pc EXCEPT ![p] = "save"]
            /\ UNCHANGED resp
    /\ UNCHANGED <<tasks, now, deleted, touched, snap>>

\* The pre('save') hook at clock reading t.
preSave(doc, t) == [doc EXCEPT !.updatedAt = t]

\* task.save() up to the insert it sends: document validation, then the
\* pre('save') hook, which reads the clock.
Save(p) ==
    /\ pc[p] = "save"
    /\ IF SchemaErrors(loc[p]) # {}
       THEN /\ resp' = [resp EXCEPT ![p] = ValidationError(SchemaErrors(loc[p]))]
            /\ pc' = [pc EXCEPT ![p] = "done"]
            /\ UNCHANGED loc
       ELSE /\ loc' = [loc EXCEPT ![p] = preSave(loc[p], now)]
            /\ pc' = [pc EXCEPT ![p] = "insertOne"]
            /\ UNCHANGED resp
    /\ UNCHANGED <<tasks, now, nextId, deleted, touched, req, started, snap>>

\* The insert reaches the collection, with the timestamps the document got
\* before it was sent; the handler answers with the document it holds, which
\* save() resolves to, not with one read back from the collection.
InsertOne(p) ==
    /\ pc[p] = "insertOne"
    /\ IF loc[p].id \in Ids
       THEN /\ resp' = [resp EXCEPT ![p] = InternalError]
            /\ UNCHANGED tasks
       ELSE /\ tasks' = tasks \cup {Stored(loc[p])}
            /\ resp' = [resp EXCEPT ![p] = [status |-> 201, data |-> loc[p]]]
    /\ pc' = [pc EXCEPT ![p] = "done"]
    /\ Observe
    /\ UNCHANGED <<now, nextId, deleted, touched, req, loc, started>>

\* --------------------------------------------------- PUT /api/tasks/:id
\* The update document once the pre('findOneAndUpdate') hook has run at t.
preFindOneAndUpdate(u, t) ==
    [title |-> u.title, description |-> u.description,
     priority |-> u.priority, status |-> u.status, updatedAt |-> t]

\* validateTask, updateData, findByIdAndUpdate up to its pre hook.
Put(p, id, body) ==
    /\ pc[p] = "idle"
    /\ started < MaxRequests
    /\ started' = started + 1
    /\ req' = [req EXCEPT ![p] = [op |-> "update", id |-> id, body |-> body]]
    /\ IF validateTask(body) # "next"
       THEN /\ resp' = [resp EXCEPT ![p] =
                          [status |-> 400, error |-> validateTask(body)]]
            /\ pc' = [pc EXCEPT ![p] = "done"]
            /\ UNCHANGED loc
       ELSE /\ loc' = [loc EXCEPT ![p] =
                         preFindOneAndUpdate(updateData(body), now)]
            /\ pc' = [pc EXCEPT ![p] = "findOneAndUpdate"]
            /\ UNCHANGED resp
    /\ UNCHANGED <<tasks, now, nextId, deleted, touched, snap>>

\* ApplyUpdate with the timestamp written by a separate, later operation.
ApplyUpdateWithoutTimestamp(r, u) ==
    [id |-> r.id,
     title |-> toWellFormed(u.title),
     description |-> toWellFormed(u.description),
     priority |-> u.priority,
     status |-> u.status,
     createdAt |-> r.createdAt,
     updatedAt |-> r.updatedAt]

\* The document r after $set of the update document u, as the collection
\* holds it.
ApplyUpdate(r, u) ==
    [id |-> r.id,
     title |-> toWellFormed(u.title),
     description |-> toWellFormed(u.description),
     priority |-> u.priority,
     status |-> u.status,
     createdAt |-> r.createdAt,
     updatedAt |-> u.updatedAt]

\* The query is cast, the update validators run, then the collection applies
\* the update to the document with that id, atomically, and returns the
\* document as it is afterwards ({new: true}).
FindByIdAndUpdate(p) ==
    /\ pc[p] = "findOneAndUpdate"
    /\ IF req[p].id = BadId
       THEN resp' = [resp EXCEPT ![p] = CastError]
            /\ UNCHANGED <<tasks, touched>>
       ELSE IF SchemaErrors(loc[p]) # {}
       THEN /\ resp' = [resp EXCEPT ![p] = ValidationError(SchemaErrors(loc[p]))]
            /\ UNCHANGED <<tasks, touched>>
       ELSE IF findById(req[p].id) = {}
       THEN resp' = [resp EXCEPT ![p] = NotFound]
            /\ UNCHANGED <<tasks, touched>>
       ELSE \E r \in findById(req[p].id) :
              /\ tasks' = (tasks \ {r}) \cup {ApplyUpdate(r, loc[p])}
              /\ touched' = touched \cup {r.id}
              /\ resp' = [resp EXCEPT ![p] =
                            [status |-> 200, data |-> ApplyUpdate(r, loc[p])]]
    /\ pc' = [pc EXCEPT ![p] = "done"]
    /\ Observe
    /\ UNCHANGED <<now, nextId, deleted, req, loc, started>>

\* --------------------------------------------------- GET /api/tasks/:id
Get(p, id) ==
    /\ pc[p] = "idle"
    /\ started < MaxRequests
    /\ started' = started + 1
    /\ req' = [req EXCEPT ![p] = [op |-> "get", id |-> id]]
    /\ IF id = BadId
       THEN resp' = [resp EXCEPT ![p] = CastError]
       ELSE IF findById(id) = {}
       THEN resp' = [resp EXCEPT ![p] = NotFound]
       ELSE \E r \in findById(id) :
              resp' = [resp EXCEPT ![p] = [status |-> 200, data |-> r]]
    /\ pc' = [pc EXCEPT ![p] = "done"]
    /\ UNCHANGED <<tasks, now, nextId, deleted, touched, loc, snap>>

\* ------------------------------------------------ DELETE /api/tasks/:id
Delete(p, id) ==
    /\ pc[p] = "idle"
    /\ started < MaxRequests
    /\ started' = started + 1
    /\ req' = [req EXCEPT ![p] = [op |-> "remove", id |-> id]]
    /\ IF id = BadId
       THEN resp' = [resp EXCEPT ![p] = CastError]
            /\ UNCHANGED <<tasks, deleted, touched>>
       ELSE IF findById(id) = {}
       THEN resp' = [resp EXCEPT ![p] = NotFound]
            /\ UNCHANGED <<tasks, deleted, touched>>
       ELSE \E r \in findById(id) :
              /\ tasks' = tasks \ {r}
              /\ deleted' = deleted \cup {r.id}
              /\ touched' = touched \cup {r.id}
              /\ resp' = [resp EXCEPT ![p] = [status |-> 200, data |-> r]]
    /\ pc' = [pc EXCEPT ![p] = "done"]
    /\ Observe
    /\ UNCHANGED <<now, nextId, loc>>

\* ------------------------------------------------------- GET /api/tasks
\* The collection compares strings byte by byte, which is the order of their
\* code points.
\* The code point that the code unit at k starts (0 when it starts none); a
\* surrogate without its other half is written as U+FFFD.
CodePointAt(s, k) ==
    IF PairEnd(s, k) THEN 0
    ELSE IF PairStart(s, k)
    THEN 65536 + (s[k] - 55296) * 1024 + (s[k + 1] - 56320)
    ELSE IF LoneSurrogate(s, k) THEN 65533
    ELSE s[k]

\* s sorts strictly before t: at the first position where their code points
\* differ s has the smaller one, or s is a proper prefix of t.
\* (Code points can differ only at, just before or just after a position
\* where the code units differ, or at the end of the shorter string.)
StrLess(s, t) ==
    LET n == IF Len(s) < Len(t) THEN Len(s) ELSE Len(t)
        units == {k \in 1..n : s[k] # t[k]}
        near == (units \cup {k - 1 : k \in units} \cup {k + 1 : k \in units}
                   \cup {n}) \cap (1..n)
        differ == {k \in near : CodePointAt(s, k) # CodePointAt(t, k)}
    IN  IF differ = {} THEN Len(s) < Len(t)
        ELSE LET k == CHOOSE i \in differ : \A j \in differ : i <= j
             IN  CodePointAt(s, k) < CodePointAt(t, k)

\* The enumerated strings in the collection's (binary) string order.
EnumCode(v) ==
    CASE v = "completed" -> 1 [] v = "high" -> 2 [] v = "in-progress" -> 3
      [] v = "low" -> 4 [] v = "medium" -> 5 [] v = "pending" -> 6

\* r1 sorts strictly before r2 on field f, ascending.  A field no document
\* has orders nothing.
FieldLess(f, r1, r2) ==
    IF f \in {"createdAt", "updatedAt"} THEN r1[f] < r2[f]
    ELSE IF f \in {"priority", "status"} THEN EnumCode(r1[f]) < EnumCode(r2[f])
    ELSE IF f \in {"title", "description"} THEN StrLess(r1[f], r2[f])
    ELSE FALSE

\* Mutant of Matches: the priority filter is dropped.
MatchesStatusOnly(q, r) ==
    (Has(q, "status") /\ q.status # "" /\ q.status # "all")
        => r.status = q.status

\* The filter object the handler builds, as a predicate on documents.
Matches(q, r) ==
    /\ (Has(q, "status") /\ q.status # "" /\ q.status # "all")
          => r.status = q.status
    /\ (Has(q, "priority") /\ q.priority # "" /\ q.priority # "all")
          => r.priority = q.priority

SortBy(q) == IF Has(q, "sortBy") THEN q.sortBy ELSE "createdAt"
Order(q) == IF Has(q, "order") THEN q.order ELSE "desc"
\* sort[sortBy] = order === 'asc' ? 1 : -1
\* Direction with the order parameter ignored.
DirectionIgnored(q) == -1

Direction(q) == IF Order(q) = "asc" THEN 1 ELSE -1

Sorted(seq, f, dir) ==
    \A i \in 1..(Len(seq) - 1) :
        IF dir = 1 THEN ~FieldLess(f, seq[i + 1], seq[i])
        ELSE ~FieldLess(f, seq[i], seq[i + 1])

\* Every arrangement of the set T as a sequence.
Arrangements(T) ==
    {s \in [1..Cardinality(T) -> T] : \A i, j \in DOMAIN s : i # j => s[i] # s[j]}

\* Sort keys that the collection refuses as a field path: the empty name
\* (?sortBy=) and a name that starts with "$" (?sortBy=$x).
RefusedSortKeys == {"", "$x"}

\* Task.find(filter).sort(sort): the query rejects when the collection
\* refuses the sort key; otherwise it resolves to the matching documents in
\* an order the sort allows, the collection deciding among documents that
\* tie.
find(q) ==
    IF SortBy(q) \in RefusedSortKeys THEN {[ok |-> FALSE]}
    ELSE {[ok |-> TRUE, docs |-> s] :
            s \in {a \in Arrangements({r \in tasks : Matches(q, r)}) :
                     Sorted(a, SortBy(q), Direction(q))}}

\* The handler answers with the array and its length; a rejected query goes
\* through asyncHandler to the error middleware, which answers 500.
List(p, q) ==
    /\ pc[p] = "idle"
    /\ started < MaxRequests
    /\ started' = started + 1
    /\ req' = [req EXCEPT ![p] = [op |-> "list", query |-> q]]
    /\ \E found \in find(q) :
         resp' = [resp EXCEPT ![p] =
                    IF found.ok
                    THEN [status |-> 200, data |-> found.docs,
                          count |-> Len(found.docs)]
                    ELSE InternalError]
    /\ pc' = [pc EXCEPT ![p] = "done"]
    /\ UNCHANGED <<tasks, now, nextId, deleted, touched, loc, snap>>

\* ------------------------------------------------------- GET /api/stats
\* The handler up to the answer of its first count.
Stats(p) ==
    /\ pc[p] = "idle"
    /\ started < MaxRequests
    /\ started' = started + 1
    /\ req' = [req EXCEPT ![p] = [op |-> "stats"]]
    /\ loc' = [loc EXCEPT ![p] = [totalTasks |-> Cardinality(tasks)]]
    /\ snap' = [snap EXCEPT ![p] = {StatsOf(tasks)}]
    /\ pc' = [pc EXCEPT ![p] = "countCompleted"]
    /\ UNCHANGED <<tasks, now, nextId, deleted, touched, resp>>

CountCompleted(p) ==
    /\ pc[p] = "countCompleted"
    /\ loc' = [loc EXCEPT ![p] =
                 [totalTasks |-> loc[p].totalTasks,
                  completedTasks |-> countDocuments(tasks, "completed")]]
    /\ pc' = [pc EXCEPT ![p] = "countPending"]
    /\ UNCHANGED <<tasks, now, nextId, deleted, touched, req, resp, snap, started>>

CountPending(p) ==
    /\ pc[p] = "countPending"
    /\ loc' = [loc EXCEPT ![p] =
                 [totalTasks |-> loc[p].totalTasks,
                  completedTasks |-> loc[p].completedTasks,
                  pendingTasks |-> countDocuments(tasks, "pending")]]
    /\ pc' = [pc EXCEPT ![p] = "countInProgress"]
    /\ UNCHANGED <<tasks, now, nextId, deleted, touched, req, resp, snap, started>>

CountInProgress(p) ==
    /\ pc[p] = "countInProgress"
    /\ loc' = [loc EXCEPT ![p] =
                 [totalTasks |-> loc[p].totalTasks,
                  completedTasks |-> loc[p].completedTasks,
                  pendingTasks |-> loc[p].pendingTasks,
                  inProgressTasks |-> countDocuments(tasks, "in-progress")]]
    /\ pc' = [pc EXCEPT ![p] = "aggregate"]
    /\ UNCHANGED <<tasks, now, nextId, deleted, touched, req, resp, snap, started>>

\* The aggregate over the collection as it is now, and the answer.
Aggregate(p) ==
    /\ pc[p] = "aggregate"
    /\ resp' = [resp EXCEPT ![p] =
                  [status |-> 200,
                   data |-> [total |-> loc[p].totalTasks,
                             completed |-> loc[p].completedTasks,
                             pending |-> loc[p].pendingTasks,
                             inProgress |-> loc[p].inProgressTasks,
                             priority |-> priorityStats(tasks)]]]
    /\ pc' = [pc EXCEPT ![p] = "done"]
    /\ UNCHANGED <<tasks, now, nextId, deleted, touched, req, loc, snap, started>>

\* ---------------------------------------------------------- scripts/seed.js
\* sampleTasks, the ten objects the seed script inserts (strings as code
\* units).
sampleTasks ==
    <<
      \* Setup Development Environment
      [title |->
         <<83, 101, 116, 117, 112, 32, 68, 101, 118, 101, 108, 111, 112, 109,
           101, 110, 116, 32, 69, 110, 118, 105, 114, 111, 110, 109, 101,
           110, 116>>,
       description |->
         <<73, 110, 115, 116, 97, 108, 108, 32, 78, 111, 100, 101, 46, 106,
           115, 44, 32, 77, 111, 110, 103, 111, 68, 66, 44, 32, 97, 110, 100,
           32, 99, 111, 110, 102, 105, 103, 117, 114, 101, 32, 100, 101, 118,
           101, 108, 111, 112, 109, 101, 110, 116, 32, 116, 111, 111, 108,
           115>>,
       priority |-> "high", status |-> "completed"],
      \* Create API Documentation
      [title |->
         <<67, 114, 101, 97, 116, 101, 32, 65, 80, 73, 32, 68, 111, 99, 117,
           109, 101, 110, 116, 97, 116, 105, 111, 110>>,
       description |->
         <<87, 114, 105, 116, 101, 32, 99, 111, 109, 112, 114, 101, 104, 101,
           110, 115, 105, 118, 101, 32, 65, 80, 73, 32, 100, 111, 99, 117,
           109, 101, 110, 116, 97, 116, 105, 111, 110, 32, 117, 115, 105,
           110, 103, 32, 83, 119, 97, 103, 103, 101, 114, 47, 79, 112, 101,
           110, 65, 80, 73>>,
       priority |-> "medium", status |-> "in-progress"],
      \* Implement User Authentication
      [title |->
         <<73, 109, 112, 108, 101, 109, 101, 110, 116, 32, 85, 115, 101, 114,
           32, 65, 117, 116, 104, 101, 110, 116, 105, 99, 97, 116, 105, 111,
           110>>,
       description |->
         <<65, 100, 100, 32, 74, 87, 84, 45, 98, 97, 115, 101, 100, 32, 97,
           117, 116, 104, 101, 110, 116, 105, 99, 97, 116, 105, 111, 110, 32,
           115, 121, 115, 116, 101, 109, 32, 119, 105, 116, 104, 32, 108,
           111, 103, 105, 110, 47, 114, 101, 103, 105, 115, 116, 101, 114,
           32, 102, 117, 110, 99, 116, 105, 111, 110, 97, 108, 105, 116, 121>>,
       priority |-> "high", status |-> "pending"],
      \* Write Unit Tests
      [title |->
         <<87, 114, 105, 116, 101, 32, 85, 110, 105, 116, 32, 84, 101, 115,
           116, 115>>,
       description |->
         <<67, 114, 101, 97, 116, 101, 32, 99, 111, 109, 112, 114, 101, 104,
           101, 110, 115, 105, 118, 101, 32, 117, 110, 105, 116, 32, 116,
           101, 115, 116, 115, 32, 102, 111, 114, 32, 97, 108, 108, 32, 65,
           80, 73, 32, 101, 110, 100, 112, 111, 105, 110, 116, 115>>,
       priority |-> "medium", status |-> "pending"],
      \* Setup CI/CD Pipeline
      [title |->
         <<83, 101, 116, 117, 112, 32, 67, 73, 47, 67, 68, 32, 80, 105, 112,
           101, 108, 105, 110, 101>>,
       description |->
         <<67, 111, 110, 102, 105, 103, 117, 114, 101, 32, 97, 117, 116, 111,
           109, 97, 116, 101, 100, 32, 116, 101, 115, 116, 105, 110, 103, 32,
           97, 110, 100, 32, 100, 101, 112, 108, 111, 121, 109, 101, 110,
           116, 32, 112, 105, 112, 101, 108, 105, 110, 101>>,
       priority |-> "low", status |-> "pending"],
      \* Optimize Database Queries
      [title |->
         <<79, 112, 116, 105, 109, 105, 122, 101, 32, 68, 97, 116, 97, 98,
           97, 115, 101, 32, 81, 117, 101, 114, 105, 101, 115>>,
       description |->
         <<65, 100, 100, 32, 105, 110, 100, 101, 120, 101, 115, 32, 97, 110,
           100, 32, 111, 112, 116, 105, 109, 105, 122, 101, 32, 77, 111, 110,
           103, 111, 68, 66, 32, 113, 117, 101, 114, 105, 101, 115, 32, 102,
           111, 114, 32, 98, 101, 116, 116, 101, 114, 32, 112, 101, 114, 102,
           111, 114, 109, 97, 110, 99, 101>>,
       priority |-> "medium", status |-> "in-progress"],
      \* Add Error Logging
      [title |->
         <<65, 100, 100, 32, 69, 114, 114, 111, 114, 32, 76, 111, 103, 103,
           105, 110, 103>>,
       description |->
         <<73, 109, 112, 108, 101, 109, 101, 110, 116, 32, 99, 111, 109, 112,
           114, 101, 104, 101, 110, 115, 105, 118, 101, 32, 101, 114, 114,
           111, 114, 32, 108, 111, 103, 103, 105, 110, 103, 32, 97, 110, 100,
           32, 109, 111, 110, 105, 116, 111, 114, 105, 110, 103>>,
       priority |-> "low", status |-> "completed"],
      \* Create Frontend Components
      [title |->
         <<67, 114, 101, 97, 116, 101, 32, 70, 114, 111, 110, 116, 101, 110,
           100, 32, 67, 111, 109, 112, 111, 110, 101, 110, 116, 115>>,
       description |->
         <<66, 117, 105, 108, 100, 32, 82, 101, 97, 99, 116, 32, 99, 111,
           109, 112, 111, 110, 101, 110, 116, 115, 32, 102, 111, 114, 32,
           116, 97, 115, 107, 32, 109, 97, 110, 97, 103, 101, 109, 101, 110,
           116, 32, 105, 110, 116, 101, 114, 102, 97, 99, 101>>,
       priority |-> "high", status |-> "in-progress"],
      \* Setup Production Environment
      [title |->
         <<83, 101, 116, 117, 112, 32, 80, 114, 111, 100, 117, 99, 116, 105,
           111, 110, 32, 69, 110, 118, 105, 114, 111, 110, 109, 101, 110, 116>>,
       description |->
         <<67, 111, 110, 102, 105, 103, 117, 114, 101, 32, 112, 114, 111,
           100, 117, 99, 116, 105, 111, 110, 32, 115, 101, 114, 118, 101,
           114, 32, 119, 105, 116, 104, 32, 112, 114, 111, 112, 101, 114, 32,
           115, 101, 99, 117, 114, 105, 116, 121, 32, 109, 101, 97, 115, 117,
           114, 101, 115>>,
       priority |-> "high", status |-> "pending"],
      \* Implement Real-time Updates
      [title |->
         <<73, 109, 112, 108, 101, 109, 101, 110, 116, 32, 82, 101, 97, 108,
           45, 116, 105, 109, 101, 32, 85, 112, 100, 97, 116, 101, 115>>,
       description |->
         <<65, 100, 100, 32, 87, 101, 98, 83, 111, 99, 107, 101, 116, 32,
           115, 117, 112, 112, 111, 114, 116, 32, 102, 111, 114, 32, 114,
           101, 97, 108, 45, 116, 105, 109, 101, 32, 116, 97, 115, 107, 32,
           117, 112, 100, 97, 116, 101, 115>>,
       priority |-> "low", status |-> "pending"]
    >>

\* The ObjectId of the i-th document of the seeding.
SeedObjectId(i) == SeedIdBase + i

\* new Task(o) under the seed script's schema: the trim setters run, the
\* defaults of priority and status fill what o lacks, a description o lacks
\* stays unset, and the date defaults read the clock, createdAt at t1 and
\* then updatedAt at t2.
SeedTask(o, id, t1, t2) ==
    LET d == [id |-> id,
              title |-> trim(o.title),
              priority |-> IF Has(o, "priority") THEN o.priority
                           ELSE "medium",
              status |-> IF Has(o, "status") THEN o.status ELSE "pending",
              createdAt |-> t1,
              updatedAt |-> t2]
    IN  IF Has(o, "description")
        THEN [f \in DOMAIN d \cup {"description"} |->
                IF f = "description" THEN trim(o.description) ELSE d[f]]
        ELSE d

\* seedDatabase() up to Task.deleteMany({}) reaching the store: the
\* documents stored then are the ones it is certain to remove.
DeleteMany ==
    /\ pc[Seeder] = "idle"
    /\ started < MaxRequests
    /\ started' = started + 1
    /\ pc' = [pc EXCEPT ![Seeder] = "deleteMany"]
    /\ loc' = [loc EXCEPT ![Seeder] = [pending |-> Ids, t0 |-> now]]
    /\ UNCHANGED <<tasks, now, nextId, deleted, touched, req, resp, snap>>

\* The store removes one more document, other operations being served in
\* between: one that was stored when the command arrived, or one inserted
\* since.
DeleteNext ==
    /\ pc[Seeder] = "deleteMany"
    /\ \E r \in tasks :
         /\ tasks' = tasks \ {r}
         /\ deleted' = deleted \cup {r.id}
         /\ touched' = touched \cup {r.id}
    /\ loc' = [loc EXCEPT ![Seeder].t0 = now]
    /\ Observe
    /\ UNCHANGED <<now, nextId, pc, req, resp, started>>

\* The clock readings of a run of n Date.now() calls made between the
\* readings t0 and t1: cnt[v] of them are at most v.
Readings(n, t0, t1) ==
    { [k \in 1..n |-> CHOOSE v \in t0..t1 :
                        cnt[v] >= k /\ \A w \in t0..(v - 1) : cnt[w] < k] :
        cnt \in {c \in [t0..t1 -> 0..n] :
                   /\ c[t1] = n
                   /\ \A v \in t0..(t1 - 1) : c[v] <= c[v + 1]} }

\* deleteMany has answered, no document it had to remove being left, and
\* Task.insertMany(sampleTasks) runs up to the insert it sends: the
\* documents are constructed one after another, two clock readings each,
\* under the schema (which has no pre('save') hook), and validated; none is
\* sent when one is invalid.
InsertMany ==
    /\ pc[Seeder] = "deleteMany"
    /\ loc[Seeder].pending \cap Ids = {}
    /\ \E rd \in Readings(2 * Len(sampleTasks), loc[Seeder].t0, now) :
         LET docs == [i \in DOMAIN sampleTasks |->
                        SeedTask(sampleTasks[i], SeedObjectId(i),
                                 rd[2 * i - 1], rd[2 * i])]
         IN  IF \E i \in DOMAIN docs : SchemaErrors(docs[i]) # {}
             THEN /\ pc' = [pc EXCEPT ![Seeder] = "exited"]
                  /\ loc' = [loc EXCEPT ![Seeder] = NoLoc]
             ELSE /\ pc' = [pc EXCEPT ![Seeder] = "bulkInsert"]
                  /\ loc' = [loc EXCEPT ![Seeder] = [docs |-> docs]]
    /\ UNCHANGED <<tasks, now, nextId, deleted, touched, req, resp, started,
                   snap>>

\* The store inserts the next document, other operations being served in
\* between; after the last one the script closes its connection and exits.
BulkInsert ==
    /\ pc[Seeder] = "bulkInsert"
    /\ LET docs == loc[Seeder].docs IN
         /\ tasks' = tasks \cup {Stored(Head(docs))}
         /\ IF Len(docs) = 1
            THEN /\ pc' = [pc EXCEPT ![Seeder] = "exited"]
                 /\ loc' = [loc EXCEPT ![Seeder] = NoLoc]
            ELSE /\ loc' = [loc EXCEPT ![Seeder] = [docs |-> Tail(docs)]]
                 /\ UNCHANGED pc
    /\ Observe
    /\ UNCHANGED <<now, nextId, deleted, touched, req, resp, started>>

\* ---------------------------------------------------------- specifications
\* Requests on single documents, served concurrently.
Next ==
    \/ Tick
    \/ \E p \in Procs : Return(p)
    \/ \E p \in Procs, body \in Bodies : Post(p, body)
    \/ \E p \in Procs : Save(p)
    \/ \E p \in Procs : InsertOne(p)
    \/ \E p \in Procs, id \in GivenIds, body \in Bodies : Put(p, id, body)
    \/ \E p \in Procs : FindByIdAndUpdate(p)
    \/ \E p \in Procs, id \in GivenIds : Get(p, id)
    \/ \E p \in Procs, id \in GivenIds : Delete(p, id)

Spec == Init /\ [][Next]_vars

\* Statistics requests in slot 1 while slot 2 serves writes.
StatsNext ==
    \/ Tick
    \/ \E p \in Procs : Return(p)
    \/ Stats(1)
    \/ CountCompleted(1)
    \/ CountPending(1)
    \/ CountInProgress(1)
    \/ Aggregate(1)
    \/ \E body \in Bodies : Post(2, body)
    \/ Save(2)
    \/ InsertOne(2)
    \/ \E id \in KnownIds, body \in Bodies : Put(2, id, body)
    \/ FindByIdAndUpdate(2)
    \/ \E id \in KnownIds : Delete(2, id)

StatsSpec == Init /\ [][StatsNext]_vars

\* One request at a time, over the larger input sets.
SeqNext ==
    \/ Tick
    \/ Return(1)
    \/ \E body \in AllBodies : Post(1, body)
    \/ Save(1)
    \/ InsertOne(1)
    \/ \E id \in AllIds, body \in AllBodies : Put(1, id, body)
    \/ FindByIdAndUpdate(1)
    \/ \E id \in AllIds : Get(1, id)
    \/ \E id \in AllIds : Delete(1, id)
    \/ \E q \in AllQueries : List(1, q)
    \/ Stats(1)
    \/ CountCompleted(1)
    \/ CountPending(1)
    \/ CountInProgress(1)
    \/ Aggregate(1)

SeqSpec == Init /\ [][SeqNext]_vars

\* Request bodies of the specification with the seed script: the bodies of
\* the concurrent specification, one with an over-long title and one with a
\* priority outside the enumeration.
SeedBodies ==
    Bodies \cup {[title |-> TooLong], [title |-> A, priority |-> "urgent"]}

\* The seed script runs while slot 1 serves requests on single documents.
SeedNext ==
    \/ Tick
    \/ Return(1)
    \/ DeleteMany
    \/ DeleteNext
    \/ InsertMany
    \/ BulkInsert
    \/ \E body \in SeedBodies : Post(1, body)
    \/ Save(1)
    \/ InsertOne(1)
    \/ \E id \in GivenIds, body \in SeedBodies : Put(1, id, body)
    \/ FindByIdAndUpdate(1)
    \/ \E id \in GivenIds : Get(1, id)
    \/ \E id \in GivenIds : Delete(1, id)

SeedSpec == Init /\ [][SeedNext]_vars

\* ------------------------------------------------------ store unavailable
\* The insert of save() or the findOneAndUpdate of findByIdAndUpdate(), once
\* sent, rejects: asyncHandler passes the error on and the error middleware
\* answers 500.  The rejection tells the server nothing about the
\* collection: the command was not applied, or it was and its answer was
\* lost.
StoreUnavailable(p) ==
    /\ \/ pc[p] = "insertOne"
       \/ /\ pc[p] = "findOneAndUpdate"
          /\ req[p].id # BadId
          /\ SchemaErrors(loc[p]) = {}
    /\ resp' = [resp EXCEPT ![p] = InternalError]
    /\ pc' = [pc EXCEPT ![p] = "done"]
    /\ \/ UNCHANGED <<tasks, touched>>
       \/ /\ pc[p] = "insertOne"
          /\ loc[p].id \notin Ids
          /\ tasks' = tasks \cup {Stored(loc[p])}
          /\ UNCHANGED touched
       \/ /\ pc[p] = "findOneAndUpdate"
          /\ \E r \in findById(req[p].id) :
               /\ tasks' = (tasks \ {r}) \cup {ApplyUpdate(r, loc[p])}
               /\ touched' = touched \cup {r.id}
    /\ Observe
    /\ UNCHANGED <<now, nextId, deleted, req, loc, started>>

\* The same for the findByIdAndDelete() of DELETE /api/tasks/:id.
DeleteUnavailable(p, id) ==
    /\ pc[p] = "idle"
    /\ started < MaxRequests
    /\ started' = started + 1
    /\ id # BadId
    /\ req' = [req EXCEPT ![p] = [op |-> "remove", id |-> id]]
    /\ resp' = [resp EXCEPT ![p] = InternalError]
    /\ pc' = [pc EXCEPT ![p] = "done"]
    /\ \/ UNCHANGED <<tasks, deleted, touched>>
       \/ \E r \in findById(id) :
            /\ tasks' = tasks \ {r}
            /\ deleted' = deleted \cup {r.id}
            /\ touched' = touched \cup {r.id}
    /\ Observe
    /\ UNCHANGED <<now, nextId, loc>>

\* Request bodies of the specification with a failing store: two that are
\* stored,
StoredBodies ==
    { [title |-> PadA],
      [title |-> A, description |-> Lone, priority |-> "high",
       status |-> "completed"] }

\* and one or more for each answer that refuses a body.
FailBodies ==
    StoredBodies \cup
    { [title |-> Blank],
      [title |-> A, priority |-> "urgent"],
      [title |-> TooLong, description |-> LongText] }

\* Slot 1 serves writes over a store that may fail them while slot 2 serves
\* gets and updates of the documents.
FailNext ==
    \/ Tick
    \/ \E p \in Procs : Return(p)
    \/ \E body \in FailBodies : Post(1, body)
    \/ Save(1)
    \/ InsertOne(1)
    \/ \E id \in AllIds, body \in FailBodies : Put(1, id, body)
    \/ \E p \in Procs : FindByIdAndUpdate(p)
    \/ \E id \in AllIds : Delete(1, id)
    \/ StoreUnavailable(1)
    \/ \E id \in AllIds : DeleteUnavailable(1, id)
    \/ \E id \in GivenIds : Get(2, id)
    \/ \E id \in GivenIds : Put(2, id, [title |-> PadA])

FailSpec == Init /\ [][FailNext]_vars

\* ================================================================= claims
Done(p, op) == pc[p] = "done" /\ req[p].op = op

\* A payload the contract calls valid: a title that is non-empty and at most
\* 200 characters once trimmed, and optional fields within their limits.
ValidPayload(b) ==
    /\ Has(b, "title")
    /\ trim(b.title) # <<>>
    /\ Len(trim(b.title)) <= TitleMaxLength
    /\ Has(b, "description") => Len(trim(b.description)) <= DescriptionMaxLength
    /\ Has(b, "priority") => b.priority \in Priorities
    /\ Has(b, "status") => b.status \in Statuses

RECURSIVE SumOver(_, _)
SumOver(f, S) ==
    IF S = {} THEN 0
    ELSE LET x == CHOOSE y \in S : TRUE IN f[x] + SumOver(f, S \ {x})

\* C1: the five values a stats() call returns are the counts over one state
\* that the collection had between the call's invocation and its return.
C1_StatsSnapshot ==
    \A p \in Procs : Done(p, "stats") => resp[p].data \in snap[p]

\* C2: every stats() result has total = completed + pending + inProgress, and
\* the values of its priority mapping sum to total.
C2_StatsTotals ==
    \A p \in Procs :
        Done(p, "stats") =>
            LET d == resp[p].data IN
            /\ d.total = d.completed + d.pending + d.inProgress
            /\ SumOver(d.priority, DOMAIN d.priority) = d.total

\* C3: a successful update keeps the document's id and createdAt, and the
\* stored updatedAt after it is at least the stored updatedAt before it.
C3_UpdateKeepsIdentity ==
    [][\A p \in Procs :
         (pc[p] = "findOneAndUpdate" /\ pc'[p] = "done" /\ resp'[p].status = 200)
         => \A r \in findById(req[p].id) :
              /\ resp'[p].data \in tasks'
              /\ resp'[p].data.id = r.id
              /\ resp'[p].data.createdAt = r.createdAt
              /\ resp'[p].data.updatedAt >= r.updatedAt]_vars

\* C4: create succeeds for every valid payload, and the record it returns and
\* stores (the returned one as the collection holds it) has createdAt =
\* updatedAt.
C4_CreateTimestampsEqual ==
    \A p \in Procs :
        (Done(p, "create") /\ ValidPayload(req[p].body)) =>
            /\ resp[p].status = 201
            /\ Stored(resp[p].data) \in tasks \/ resp[p].data.id \in touched
            /\ resp[p].data.createdAt = resp[p].data.updatedAt

\* C5: once remove(id) has succeeded, every later get(id), update(id, valid
\* payload) and remove(id) answers NotFound, and the id is never again the
\* id of a stored record.
C5_RemovedIdNotFound ==
    [][/\ \A p \in Procs :
            ( /\ pc[p] # "done" /\ pc'[p] = "done"
              /\ req'[p].op \in {"get", "update", "remove"}
              /\ req'[p].id \in deleted
              /\ req'[p].op = "update" => ValidPayload(req'[p].body) )
            => resp'[p] = NotFound
       /\ deleted' \cap Ids' = {}]_vars

\* An update with a valid payload answered NotFound for a removed id while
\* another record is stored.
C5_Witness ==
    \E p \in Procs :
        /\ Done(p, "update") /\ req[p].id \in deleted
        /\ ValidPayload(req[p].body)
        /\ resp[p] = NotFound
        /\ tasks # {}

\* What the contract calls a missing title.
BlankTitle(b) == ~Has(b, "title") \/ trim(b.title) = <<>>

MissingField ==
    [status |-> 400, error |-> "Title is required and cannot be empty"]

\* C6: create and update with an absent, empty or whitespace-only title fail
\* with MissingField("title") and leave the record set, and so the total
\* stats() counts, as it was.
C6_BlankTitleRejected ==
    [][\A p \in Procs :
         ( /\ pc[p] = "idle" /\ pc'[p] # "idle"
           /\ req'[p].op \in {"create", "update"}
           /\ BlankTitle(req'[p].body) )
         => /\ pc'[p] = "done"
            /\ resp'[p] = MissingField
            /\ tasks' = tasks
            /\ StatsOf(tasks').total = StatsOf(tasks).total]_vars

\* An update of a stored record with a whitespace-only title was refused.
C6_Witness ==
    \E p \in Procs :
        /\ Done(p, "update") /\ req[p].id \in Ids
        /\ Has(req[p].body, "title") /\ req[p].body.title # <<>>
        /\ BlankTitle(req[p].body)
        /\ resp[p] = MissingField

\* C7: create and update with a valid title and a supplied priority outside
\* {low, medium, high} or a supplied status outside {pending, in-progress,
\* completed}, the empty string included, fail with InvalidEnum.
C7_EnumRejected ==
    \A p \in Procs :
        ( /\ pc[p] = "done" /\ req[p].op \in {"create", "update"}
          /\ ~BlankTitle(req[p].body)
          /\ \/ Has(req[p].body, "priority")
                  /\ req[p].body.priority \notin Priorities
             \/ Has(req[p].body, "status")
                  /\ req[p].body.status \notin Statuses )
        => /\ resp[p].status = 400
           /\ resp[p].error \in
                {"Priority must be low, medium, or high",
                 "Status must be pending, in-progress, or completed"}

\* C8: a get of the id a create returned, with no update or remove of that
\* id in between, returns the record the create returned, field for field.
C8_RoundTrip ==
    \A p, q \in Procs :
        ( /\ Done(p, "create") /\ resp[p].status = 201
          /\ Done(q, "get") /\ req[q].id = resp[p].data.id
          /\ req[q].id \notin touched )
        => resp[q] = [status |-> 200, data |-> resp[p].data]

\* The records of a list response.
Listed(p) == {resp[p].data[i] : i \in DOMAIN resp[p].data}

\* The sort field and direction a list request asks for.
RequestedField(q) == IF Has(q, "sortBy") THEN q.sortBy ELSE "createdAt"
RequestedOrder(q) == IF Has(q, "order") THEN q.order ELSE "desc"

\* The store can order records by the field of that name.
Orders(f) == f # "" /\ f # "$x"

\* A filter constrains unless it is omitted or "all".
Constrains(q, f) == Has(q, f) /\ q[f] # "all"

\* C9 as stated: every list returns exactly the stored records that satisfy
\* every filter that constrains.
C9_ListFilterAsStated ==
    \A p \in Procs :
        Done(p, "list") =>
            /\ resp[p].status = 200
            /\ Listed(p) =
                {r \in tasks :
                    /\ Constrains(req[p].query, "status")
                         => r.status = req[p].query.status
                    /\ Constrains(req[p].query, "priority")
                         => r.priority = req[p].query.priority}

\* A filter constrains unless it is omitted, empty or "all".
ConstrainsNonEmpty(q, f) == Has(q, f) /\ q[f] # "all" /\ q[f] # ""

\* C9, amended: a list whose sort field the store can order by returns
\* exactly the stored records that satisfy every filter that constrains,
\* each once, a filter constraining unless it is omitted, empty or "all"; a
\* list whose sort field the store refuses fails with StoreUnavailable.
C9_ListFilter ==
    \A p \in Procs :
        Done(p, "list") =>
            IF Orders(RequestedField(req[p].query))
            THEN /\ resp[p].status = 200
                 /\ Listed(p) =
                     {r \in tasks :
                         /\ ConstrainsNonEmpty(req[p].query, "status")
                              => r.status = req[p].query.status
                         /\ ConstrainsNonEmpty(req[p].query, "priority")
                              => r.priority = req[p].query.priority}
                 /\ Len(resp[p].data) = Cardinality(Listed(p))
            ELSE resp[p] = InternalError

\* A listing filtered on both fields that kept a record and left one out.
C9_Witness ==
    \E p \in Procs :
        /\ Done(p, "list") /\ resp[p].status = 200
        /\ Has(req[p].query, "status") /\ req[p].query.status \in Statuses
        /\ Has(req[p].query, "priority") /\ req[p].query.priority \in Priorities
        /\ Listed(p) # {}
        /\ Listed(p) # tasks

\* C10: every stored record has a title that is non-empty, at most 200
\* characters and without surrounding whitespace, a priority and a status
\* of their enumerations, and updatedAt >= createdAt; no two share an id.
C10_WellFormed ==
    /\ \A r \in tasks :
         /\ r.title # <<>>
         /\ Len(r.title) <= TitleMaxLength
         /\ r.title[1] \notin WhiteSpace
         /\ r.title[Len(r.title)] \notin WhiteSpace
         /\ r.priority \in Priorities
         /\ r.status \in Statuses
         /\ r.updatedAt >= r.createdAt
    /\ \A r1, r2 \in tasks : r1.id = r2.id => r1 = r2

\* Three records are stored: one created with a title of 200 characters,
\* one updated after its creation to a title that arrived padded, and one
\* that the seed script inserted, with the clock advancing between its two
\* date defaults.
C10_Witness ==
    \E r1, r2, r3 \in tasks :
        /\ r1.id # r2.id
        /\ Len(r1.title) = TitleMaxLength
        /\ r2.id \in touched
        /\ r2.title = trim(PadA)
        /\ r2.updatedAt > r2.createdAt
        /\ r3.id > SeedIdBase /\ r3.id \notin touched
        /\ r3.updatedAt > r3.createdAt

\* The operations that write.
WriteOps == {"create", "update", "remove"}

\* p's request is answered in this step.
Answered(p) == pc[p] # "done" /\ pc'[p] = "done"

\* Whenever a stored record changes, all of its title, description,
\* priority, status and updatedAt become those of one update, in one step.
WholeUpdates ==
    \A r \in tasks, s \in tasks' :
        (r.id = s.id /\ r # s)
        => \E p \in Procs :
             /\ pc[p] = "findOneAndUpdate" /\ Answered(p)
             /\ req[p].id = r.id
             /\ s.title = toWellFormed(loc[p].title)
             /\ s.description = toWellFormed(loc[p].description)
             /\ s.priority = loc[p].priority
             /\ s.status = loc[p].status
             /\ s.updatedAt = loc[p].updatedAt

\* What a get, an update or a remove returns is a record as it is stored at
\* that moment.
SeenWhole ==
    \A q \in Procs :
        (Answered(q) /\ req'[q].op \in {"get", "update", "remove"}
            /\ resp'[q].status = 200)
        => IF req'[q].op = "update" THEN resp'[q].data \in tasks'
           ELSE resp'[q].data \in tasks

\* C11 as stated: a create, update or remove that fails, whatever the
\* failure, leaves the record set as it was: the set changes only in the
\* step that answers a write with success; and no record is stored or seen
\* with only some of the values of an update.
C11_AtomicAsStated ==
    [][/\ \A p \in Procs :
            (Answered(p) /\ req'[p].op \in WriteOps
                /\ resp'[p].status \notin {200, 201})
            => tasks' = tasks
       /\ tasks' # tasks
            => \E p \in Procs :
                 /\ Answered(p) /\ req'[p].op \in WriteOps
                 /\ resp'[p].status \in {200, 201}
       /\ WholeUpdates
       /\ SeenWhole]_vars

\* The record sets that the write of p, applied as a whole, leads to.
WholeWrite(p) ==
    CASE req'[p].op = "create" -> {tasks \cup {Stored(loc[p])}}
      [] req'[p].op = "update" ->
           {(tasks \ {r}) \cup {ApplyUpdate(r, loc[p])} :
              r \in findById(req'[p].id)}
      [] req'[p].op = "remove" ->
           {tasks \ {r} : r \in findById(req'[p].id)}

\* C11, amended: a create, update or remove that fails with MissingField,
\* InvalidEnum, SchemaViolation, NotFound or InvalidIdentifier leaves the
\* record set as it was; one that fails with StoreUnavailable leaves it as
\* it was or with the whole write applied; the set changes only in the step
\* that answers a write; and no record is stored or seen with only some of
\* the values of an update.
C11_Atomic ==
    [][/\ \A p \in Procs :
            (Answered(p) /\ req'[p].op \in WriteOps
                /\ resp'[p].status \in {400, 404})
            => tasks' = tasks
       /\ \A p \in Procs :
            (Answered(p) /\ req'[p].op \in WriteOps
                /\ resp'[p].status = 500)
            => tasks' \in {tasks} \cup WholeWrite(p)
       /\ tasks' # tasks
            => \E p \in Procs : Answered(p) /\ req'[p].op \in WriteOps
       /\ WholeUpdates
       /\ SeenWhole]_vars

\* An update of a record failed at the store although the store had applied
\* it, and a get that another request made afterwards returned the record
\* with all the values of that update.
C11_Witness ==
    \E p, q \in Procs :
        /\ Done(p, "update") /\ resp[p] = InternalError
        /\ Done(q, "get") /\ resp[q].status = 200
        /\ req[q].id = req[p].id
        /\ resp[q].data \in tasks
        /\ resp[q].data.updatedAt = loc[p].updatedAt
        /\ resp[q].data.updatedAt > resp[q].data.createdAt
        /\ resp[q].data.title = toWellFormed(loc[p].title)
        /\ resp[q].data.description = toWellFormed(loc[p].description)
        /\ resp[q].data.description # loc[p].description

\* C12: after a successful create(payload) or update(id, payload) the stored
\* record has the payload's title trimmed, its description trimmed or "" when
\* omitted, its priority or medium when omitted, and its status or pending
\* when omitted, whatever the record held before.
C12_FullReplace ==
    \A p \in Procs :
        ( /\ pc[p] = "done" /\ req[p].op \in {"create", "update"}
          /\ resp[p].status \in {200, 201} )
        => LET b == req[p].body
               d == resp[p].data
           IN  /\ d \in tasks
               /\ d.title = trim(b.title)
               /\ d.description =
                    IF Has(b, "description") THEN trim(b.description) ELSE <<>>
               /\ d.priority =
                    IF Has(b, "priority") THEN b.priority ELSE "medium"
               /\ d.status =
                    IF Has(b, "status") THEN b.status ELSE "pending"

\* The sequence d is ordered by field f in the direction that order names.
OrderedBy(d, f, order) ==
    /\ order = "asc"
         => \A i, j \in DOMAIN d : i < j => ~FieldLess(f, d[j], d[i])
    /\ order = "desc"
         => \A i, j \in DOMAIN d : i < j => ~FieldLess(f, d[i], d[j])

\* C13 as stated: every list answers with a finite sequence of stored
\* records ordered by the requested sort field in the requested direction,
\* and the count it returns is the length of the sequence.
C13_ListOrderedAsStated ==
    \A p \in Procs :
        Done(p, "list") =>
            /\ resp[p].status = 200
            /\ Listed(p) \subseteq tasks
            /\ resp[p].count = Len(resp[p].data)
            /\ OrderedBy(resp[p].data, RequestedField(req[p].query),
                         RequestedOrder(req[p].query))

\* C13, amended: a list whose sort field the store can order by answers with
\* a finite sequence of stored records in which no record comes after one
\* that the requested sort field puts behind it: ascending for asc,
\* descending for desc, by createdAt when no field is given and descending
\* when no direction is given; the count it returns is the length of the
\* sequence.  A list whose sort field the store refuses fails with
\* StoreUnavailable and returns no sequence.
C13_ListOrdered ==
    \A p \in Procs :
        Done(p, "list") =>
            IF Orders(RequestedField(req[p].query))
            THEN /\ resp[p].status = 200
                 /\ Listed(p) \subseteq tasks
                 /\ resp[p].count = Len(resp[p].data)
                 /\ OrderedBy(resp[p].data, RequestedField(req[p].query),
                              RequestedOrder(req[p].query))
            ELSE /\ resp[p] = InternalError
                 /\ ~Has(resp[p], "data")

\* An ascending listing of two records created at different clock readings.
C13_Witness ==
    \E p \in Procs :
        /\ Done(p, "list") /\ resp[p].status = 200
        /\ Has(req[p].query, "order") /\ req[p].query.order = "asc"
        /\ resp[p].count = 2
        /\ FieldLess(RequestedField(req[p].query),
                     resp[p].data[1], resp[p].data[2])

\* The operations that only read.
ReadOps == {"get", "list", "stats"}

\* C14: a successful update or remove leaves every record with another id
\* as it was and adds none, a successful create keeps every stored record
\* and adds exactly one, and no step of a get, list or stats changes the
\* record set.
C14_Frame ==
    [][\A p \in Procs :
         /\ ( /\ Answered(p) /\ req'[p].op \in {"update", "remove"}
              /\ resp'[p].status = 200 )
            => /\ \A r \in tasks : r.id # req'[p].id => r \in tasks'
               /\ \A s \in tasks' : s.id # req'[p].id => s \in tasks
         /\ ( /\ Answered(p) /\ req'[p].op = "create"
              /\ resp'[p].status = 201 )
            => /\ tasks \subseteq tasks'
               /\ Cardinality(tasks') = Cardinality(tasks) + 1
         /\ ( /\ pc'[p] # pc[p]
              /\ req[p].op \in ReadOps \/ req'[p].op \in ReadOps )
            => tasks' = tasks]_vars

\* A record was updated, to a later updatedAt and another status, while a
\* second record is stored.
C14_Witness ==
    \E p \in Procs :
        /\ Done(p, "update") /\ resp[p].status = 200
        /\ resp[p].data.updatedAt > resp[p].data.createdAt
        /\ \E r \in tasks :
             /\ r.id # req[p].id
             /\ r.status # resp[p].data.status
             /\ r.updatedAt # resp[p].data.updatedAt

====
